---- MODULE Spec2Model ----
(***************************************************************************)
(* Model of the logkit Tester (pkg/logkit/tester.go) and of the Matcher    *)
(* it uses (Notify / NotifyStop / MatchEntry / MatchLine): producers       *)
(* calling Write, waiters calling WaitFor and WaitForAny, the sink lock    *)
(* tst.mx, the per-matcher lock mcr.mx, the unbuffered delivery channel    *)
(* and the timeout timer.                                                  *)
(***************************************************************************)
EXTENDS Integers, Sequences, FiniteSets, TLC

\* ------------------------------------------------------------------ bounds
MaxWrites == 2
MaxCalls == 2
MaxResets == 1
\* calls of one operation on a Matcher used on its own
MaxOps == 2
\* entries of a snapshot an expectation is applied to
MaxSnapshot == 2

\* ----------------------------------------------------------------- threads
\* One producer goroutine calling Write; one test goroutine calling WaitFor
\* and one calling WaitForAny.
Writers == {"w1"}
WaitForCallers == {"a1"}
WaitForAnyCallers == {"a2"}
Waiters == WaitForCallers \cup WaitForAnyCallers
None == "none"

\* ------------------------------------------------------ lines and checkers
\* Byte strings handed to Write: two JSON objects and one text that is not
\* JSON.  One of them carries the trailing newline loggers append.
LineA0 == "{\"A\":0}\n"
LineA1 == "{\"A\":1}"
LineBad == "oops\n"
Lines == {LineA0, LineA1, LineBad}

\* len(p)
ByteLen(line) ==
    CASE line = LineA0 -> 8
      [] line = LineA1 -> 7
      [] OTHER -> 5

\* bytes.TrimSpace
TrimSpace(line) ==
    CASE line = LineA0 -> "{\"A\":0}"
      [] line = LineBad -> "oops"
      [] OTHER -> line

\* variant: every text decodes
AnyTextDecodes(line) == TRUE

\* json.Unmarshal(line, &dst) succeeds
ValidJSON(line) == TrimSpace(line) \in {"{\"A\":0}", "{\"A\":1}"}

\* json.Unmarshal(line, &dst): the decoded map
Unmarshal(line) ==
    IF TrimSpace(line) = "{\"A\":0}" THEN [A |-> 0] ELSE [A |-> 1]

\* map of an Entry that carries no decoded line
NoMap == [A |-> -1]

ZeroEntry == [raw |-> "", m |-> NoMap, idx |-> 0]

IsZero(ent) == ent.raw = ""

\* The Checkers: a field lookup, then a value comparison.  "hasA" passes when
\* the field is a number, "A=0" and "A=1" when it has that value.
chk(c, ent) ==
    CASE c = "hasA" -> ent.m.A >= 0
      [] c = "A=0" -> ent.m.A = 0
      [] OTHER -> ent.m.A = 1

\* The checks a wait is called with.
CheckLists == {<<"A=0">>, <<"hasA", "A=1">>}

\* variant: only the first check of the list is run
runFirstCheck(checks, ent) == checks = <<>> \/ chk(Head(checks), ent)

\* for _, chk := range mcr.checks { if err := chk(ent); err != nil { return false } }
RECURSIVE runChecks(_, _)
runChecks(checks, ent) ==
    IF checks = <<>> THEN TRUE
    ELSE IF ~chk(Head(checks), ent) THEN FALSE
    ELSE runChecks(Tail(checks), ent)

\* variant: the entries are numbered from one
EntryIndexFromOne(n) == n + 1

\* idx := 0 ... idx++: an entry is numbered with the count of the entries
\* decoded before it
EntryIndex(n) == n

\* Tester.entries: decode the buffer value by value; a decode error drops
\* everything decoded so far.
RECURSIVE decodeFrom(_, _, _)
decodeFrom(b, i, ets) ==
    IF i > Len(b) THEN ets
    ELSE IF ~ValidJSON(b[i]) THEN <<>>
    ELSE decodeFrom(b, i + 1,
             Append(ets, [raw |-> TrimSpace(b[i]), m |-> Unmarshal(b[i]),
                          idx |-> EntryIndex(Len(ets))]))

entries(b) == decodeFrom(b, 1, <<>>)

\* variant: the entry at the cursor is replayed again
SkipBelowCursor(i, cursor) == i < cursor

\* the loop condition "if i <= tst.matchIdx { continue }" of WaitFor
SkipReplay(i, cursor) == i <= cursor

\* WaitFor's replay loop: index of the first entry beyond the cursor that
\* passes the checks, -1 when there is none.
RECURSIVE replay(_, _, _, _)
replay(ets, i, cursor, checks) ==
    IF i >= Len(ets) THEN -1
    ELSE IF SkipReplay(i, cursor) THEN replay(ets, i + 1, cursor, checks)
    ELSE IF runChecks(checks, ets[i + 1]) THEN i
    ELSE replay(ets, i + 1, cursor, checks)

\* ------------------------------------------------------------------- state
VARIABLES
    buf,        \* tst.buf, as the sequence of the written byte strings
    cnt,        \* tst.cnt
    matchers,   \* tst.matchers, a sequence of matcher ids
    matchIdx,   \* tst.matchIdx
    mx,         \* holder of tst.mx (None when free)
    mcr,        \* the matchers registered by WaitFor, by id
    nmcr,       \* number of matchers registered so far
    pc,         \* position of every thread
    wline,      \* Write: p
    wm,         \* Write: m, the matcher taken from the head of the queue
    went,       \* Write: the entry MatchLine returns
    achecks,    \* WaitFor: checks
    aany,       \* this call is a WaitForAny
    am,         \* WaitFor: mcr
    aent,       \* WaitFor: ent, the entry the call returns
    timer,      \* WaitFor: timer
    failed,     \* kinds of failures reported to the test through t.Error
    \* history variables, read by the properties only
    apath,      \* the path by which the call reached its return
    adump,      \* the entries listed in the timeout failure of the call
    lastIdx,    \* highest index returned by WaitFor since the last cursor reset
    floor,      \* lastIdx when the call in progress began (-2: not comparable)
    reg,        \* tst.cnt when the wait registered as head of the queue
    nwr,        \* number of Write calls begun since New or the last Reset
    nrs,        \* number of Reset calls since New
    anyDone,    \* path of a WaitForAny that returned with no operation begun
                \* since ("no" otherwise)
    given,      \* indices of the entries handed to waits since the last
                \* cursor reset or Reset
    wret,       \* Write: (n, err) of the call that returned last
    res,        \* operation, arguments and result of the read that is
                \* returning (NoRes otherwise)
    \* the parts of the package exercised on their own
    old,        \* a Matcher of matcher.go, with the calls made on it
    mt,         \* a Matcher of matcher_test.go used without a Tester
    pur,        \* a Checker or an Entries expectation applied to an input
    rw,         \* tst.mx as a sync.RWMutex, with one goroutine that reads
                \* and one that writes
    tend        \* the end of the test: the cleanups that have run

vars == <<buf, cnt, matchers, matchIdx, mx, mcr, nmcr, pc, wline, wm, went,
          achecks, aany, am, aent, timer, failed,
          apath, adump, lastIdx, floor, reg, nwr, nrs, anyDone, given, wret, res,
          old, mt, pur, rw, tend>>

\* the state of the Tester and of the threads that call it
mainVars == <<buf, cnt, matchers, matchIdx, mx, mcr, nmcr, pc, wline, wm, went,
              achecks, aany, am, aent, timer, failed,
              apath, adump, lastIdx, floor, reg, nwr, nrs, anyDone, given, wret,
              res>>
libVars == <<old, mt, pur, rw, tend>>

tstVars == <<buf, cnt, matchers, matchIdx>>
wVars == <<wline, wm, went, wret>>
aVars == <<achecks, aany, am, aent, timer>>
hVars == <<apath, adump, lastIdx, floor, reg>>

MatcherIds == 1..(MaxCalls + 1)

\* no Write has returned yet
NoRet == [n |-> -1, err |-> "none"]

\* no read is returning
NoRes == [op |-> "none", checks |-> <<>>, ets |-> <<>>, ent |-> ZeroEntry,
          n |-> 0]

Max(x, y) == IF x >= y THEN x ELSE y

\* &Matcher{cfg: cfg, checks: checks, t: t}; timedOut is a history field:
\* the WaitFor that registered the matcher went through its timer branch.
NewMatcher(checks) ==
    [checks |-> checks, cnt |-> 0, mx |-> None, notify |-> "nil",
     closed |-> FALSE, timedOut |-> FALSE]

\* ------------------------------------------- the Matcher of matcher.go
\* Entry{raw: string(line), m: dst, idx: idx} of a line: its text without
\* the surrounding white space, its decoded map and the index it is
\* matched under
LineEntry(idx, line) ==
    [raw |-> TrimSpace(line), m |-> Unmarshal(line), idx |-> idx]

\* A check whose function writes to the map of the Entry it is given:
\* func(ent Entry) error { ent.m["A"] = 1; return nil }; the other checks
\* are those of chk.  The result is what the check returns and the map it
\* leaves behind.
applyCheck(c, ent) ==
    IF c = "setA1" THEN [ok |-> TRUE, ent |-> [ent EXCEPT !.m = [A |-> 1]]]
    ELSE [ok |-> chk(c, ent), ent |-> ent]

\* The checks a Matcher is built with.
MatcherCheckLists ==
    {<<>>, <<"A=0">>, <<"hasA", "A=1">>, <<"setA1", "A=1">>, <<"A=0", "setA1">>}

\* no Matcher built yet; closes, panicked, discarded, calls, stops and the
\* last call (idx, line, ret) are history fields
NoOld ==
    [made |-> FALSE, checks |-> <<>>, done |-> "nil", ent |-> ZeroEntry,
     closes |-> 0, panicked |-> FALSE, ended |-> FALSE, discarded |-> 0,
     sats |-> 0, calls |-> 0, idx |-> 0, line |-> "", ret |-> "none",
     errs |-> 0]

\* ------------------------------ the Matcher of matcher_test.go on its own
\* a call of MatchLine or MatchEntry that has not returned anything
NoResult == [ok |-> FALSE, ent |-> ZeroEntry]

\* no Matcher built yet.  notify, sch and rch are channels by number (0 is
\* nil); lock is the holder of mcr.mx; the fields from kind on are history.
NoMt ==
    [made |-> FALSE, checks |-> <<>>, cnt |-> 0, lock |-> "none",
     notify |-> 0, nch |-> 0, regs |-> 0, ran |-> 0,
     pc |-> "idle", cent |-> ZeroEntry, sch |-> 0,
     rch |-> 0, recvd |-> ZeroEntry,
     kind |-> "none", idx |-> 0, line |-> "", arg |-> ZeroEntry,
     ret |-> NoResult, calls |-> 0, stops |-> 0, errs |-> 0,
     closes |-> [k \in 1..MaxOps |-> 0], closedInFlight |-> FALSE,
     sentOnClosed |-> FALSE, panicked |-> FALSE]

\* ------------------------------------- Checkers and Entries expectations
\* The value of a field of an Entry: absent, or a JSON value with its type.
\* "T1" and "T2" are strings in the configured time format, "x" and "xy"
\* are not.
Absent == [t |-> "absent", v |-> ""]

FieldValues ==
    {Absent}
    \cup {[t |-> "string", v |-> x] : x \in {"x", "xy", "T1", "T2"}}
    \cup {[t |-> "number", v |-> x] : x \in {"0", "1"}}
    \cup {[t |-> "bool", v |-> x] : x \in {"true", "false"}}

\* nothing applied yet
NoPur ==
    [op |-> "none", kind |-> "", val |-> Absent, want |-> "", err |-> "nil",
     ets |-> <<>>, fn |-> "", ret |-> FALSE, errs |-> 0,
     n |-> 0, ent |-> ZeroEntry, panicked |-> FALSE]

\* tst.mx before any call: nobody reads, nobody writes.  rpc and wpc are the
\* positions of the reading and of the writing goroutine; b and cnt are the
\* buffer and the counter the Write calls build; the fields from op on are
\* those of the read in progress.
NoRw ==
    [readers |-> 0, rpc |-> "idle", wpc |-> "idle", b |-> <<>>, cnt |-> 0,
     line |-> "", op |-> "none", checks |-> <<>>, ent |-> ZeroEntry,
     ets |-> <<>>, failed |-> {}, nops |-> 0, nwr |-> 0]

\* the test function has not returned and no cleanup has run
NoEnd == [ended |-> FALSE, ran |-> {}]

\* New(t): an empty Tester, no thread inside a call
Init ==
    /\ buf = <<>>
    /\ cnt = 0
    /\ matchers = <<>>
    /\ matchIdx = -1
    /\ mx = None
    /\ mcr = [m \in MatcherIds |-> NewMatcher(<<>>)]
    /\ nmcr = 0
    /\ pc = [t \in Writers \cup Waiters |-> "idle"]
    /\ wline = [w \in Writers |-> ""]
    /\ wm = [w \in Writers |-> 0]
    /\ went = [w \in Writers |-> ZeroEntry]
    /\ achecks = [a \in Waiters |-> <<>>]
    /\ aany = [a \in Waiters |-> FALSE]
    /\ am = [a \in Waiters |-> 0]
    /\ aent = [a \in Waiters |-> ZeroEntry]
    /\ timer = [a \in Waiters |-> "off"]
    /\ failed = {}
    /\ apath = [a \in Waiters |-> "none"]
    /\ adump = [a \in Waiters |-> <<>>]
    /\ lastIdx = -1
    /\ floor = [a \in Waiters |-> -2]
    /\ reg = [a \in Waiters |-> -1]
    /\ nwr = 0
    /\ nrs = 0
    /\ anyDone = "no"
    /\ given = {}
    /\ wret = [w \in Writers |-> NoRet]
    /\ res = NoRes
    /\ old = NoOld
    /\ mt = NoMt
    /\ pur = NoPur
    /\ rw = NoRw
    /\ tend = NoEnd

\* A matcher that neither the queue nor a call in progress refers to is
\* garbage: its record returns to the unallocated form.
Collect(ms, queue, waiting, writing) ==
    [m \in MatcherIds |->
        IF \/ \E k \in 1..Len(queue) : queue[k] = m
           \/ \E a \in Waiters : waiting[a] = m
           \/ \E w \in Writers : writing[w] = m
        THEN ms[m] ELSE NewMatcher(<<>>)]

\* variant: the matcher registered last is evaluated
PickLastMatcher(q) == q[Len(q)]

\* ------------------------------------------------------------ Tester.Write
\* m := tst.matchers[0]
PickMatcher(q) == Head(q)

\* variant: the entry is numbered with the count after the increment
WriteIndexNext(n) == n

\* the index Write hands to MatchLine: tst.cnt-1, after tst.cnt++
WriteIndex(n) == n - 1

\* "if mcr.notify != nil": MatchLine sends the entry on the channel
SendsOn(m) == mcr[m].notify # "nil"

\* Matcher.MatchLine up to its send: the entry it is about to return, the
\* zero entry when the line does not decode or a check fails.
MatchLine(m, idx, line) ==
    LET ent == [raw |-> TrimSpace(line), m |-> Unmarshal(line), idx |-> idx]
    IN IF ~ValidJSON(line) THEN ZeroEntry
       ELSE IF ~runChecks(mcr[m].checks, ent) THEN ZeroEntry
       ELSE ent

\* Write to the point where it returns or blocks: tst.mx.Lock(), tst.cnt++,
\* the append; with no matcher pending it returns; else MatchLine on the
\* head matcher under mcr.mx.  A match on a matcher with a channel blocks
\* in "mcr.notify <- ent" holding both locks (a closed channel panics);
\* every other outcome runs to the end of Write: on a match the cursor is
\* stored and the head popped, then tst.mx is released.
WriteBegin(w, p) ==
    /\ pc[w] = "idle"
    /\ nwr < MaxWrites
    /\ mx = None
    /\ nwr' = nwr + 1
    /\ cnt' = cnt + 1
    /\ buf' = Append(buf, p)
    /\ anyDone' = "no"
    /\ IF matchers = <<>>
       THEN /\ wret' = [wret EXCEPT ![w] = [n |-> ByteLen(p), err |-> "nil"]]
            /\ UNCHANGED <<mx, pc, wline, wm, went, matchIdx, matchers, mcr,
                           failed>>
       ELSE LET m == PickMatcher(matchers)
                ent == MatchLine(m, WriteIndex(cnt'), p)
            IN /\ mcr[m].mx = None
               /\ failed' = IF ValidJSON(p) THEN failed
                            ELSE failed \cup {"matcher line"}
               /\ IF ~IsZero(ent) /\ SendsOn(m)
                  THEN /\ mx' = w
                       /\ mcr' = [mcr EXCEPT ![m].mx = w]
                       /\ pc' = [pc EXCEPT ![w] =
                                    IF mcr[m].closed THEN "panic" ELSE "send"]
                       /\ wline' = [wline EXCEPT ![w] = p]
                       /\ wm' = [wm EXCEPT ![w] = m]
                       /\ went' = [went EXCEPT ![w] = ent]
                       /\ UNCHANGED <<matchIdx, matchers, wret>>
                  ELSE /\ IF ~IsZero(ent)
                          THEN /\ matchIdx' = cnt' - 1
                               /\ matchers' = Tail(matchers)
                               /\ mcr' = Collect([mcr EXCEPT ![m].cnt = @ + 1],
                                                 matchers', am, wm)
                          ELSE UNCHANGED <<matchIdx, matchers, mcr>>
                       /\ wret' = [wret EXCEPT ![w] =
                                      [n |-> ByteLen(p), err |-> "nil"]]
                       /\ UNCHANGED <<mx, pc, wline, wm, went>>
    /\ UNCHANGED <<nmcr, nrs, given, res, libVars>>
    /\ UNCHANGED aVars
    /\ UNCHANGED hVars

\* Matcher.MatchLine after the send: mcr.cnt++; return ent (mcr.mx.Unlock()).
MatchLineSent(w) ==
    /\ pc[w] = "sent"
    /\ mcr' = [mcr EXCEPT ![wm[w]].cnt = @ + 1, ![wm[w]].mx = None]
    /\ pc' = [pc EXCEPT ![w] = "fin"]
    /\ UNCHANGED <<mx, nmcr, failed, anyDone, nwr, nrs, given, res, libVars>>
    /\ UNCHANGED tstVars
    /\ UNCHANGED wVars
    /\ UNCHANGED aVars
    /\ UNCHANGED hVars

\* the rest of Write after a delivered match: store the cursor and pop the
\* head; then the deferred tst.mx.Unlock().
WriteEnd(w) ==
    /\ pc[w] = "fin"
    /\ IF ~IsZero(went[w])
       THEN /\ matchIdx' = cnt - 1
            /\ matchers' = Tail(matchers)
       ELSE UNCHANGED <<matchIdx, matchers>>
    /\ mx' = None
    /\ pc' = [pc EXCEPT ![w] = "idle"]
    /\ wline' = [wline EXCEPT ![w] = ""]
    /\ wm' = [wm EXCEPT ![w] = 0]
    /\ went' = [went EXCEPT ![w] = ZeroEntry]
    /\ wret' = [wret EXCEPT ![w] = [n |-> ByteLen(wline[w]), err |-> "nil"]]
    /\ mcr' = Collect(mcr, matchers', am, wm')
    /\ UNCHANGED <<buf, cnt, nmcr, failed, anyDone, nwr, nrs, given, res, libVars>>
    /\ UNCHANGED aVars
    /\ UNCHANGED hVars

\* ---------------------------------------------------------- Tester.WaitFor
\* number of Write calls that have returned since New or the last Reset
CompletedWrites == cnt - Cardinality({w \in Writers : pc[w] # "idle"})

\* variant: WaitFor scans and registers without taking tst.mx
WaitForNoLock == TRUE

\* WaitFor can take tst.mx
WaitForLock == mx = None

\* WaitFor from tst.mx.Lock() to the first tst.mx.Unlock(): the replay loop
\* over the captured entries and, when it finds nothing, Notify, the append
\* to tst.matchers and the timer.  WaitForAny(any) enters the same code.
WaitForBegin(a, checks, any) ==
    /\ pc[a] = "idle"
    /\ nmcr < MaxCalls
    /\ WaitForLock
    /\ LET ets == entries(buf)
           i == replay(ets, 0, matchIdx, checks)
       IN /\ failed' = IF \E k \in 1..Len(buf) : ~ValidJSON(buf[k])
                       THEN failed \cup {"decode"} ELSE failed
          /\ IF i >= 0
             THEN /\ matchIdx' = i
                  /\ aent' = [aent EXCEPT ![a] = ets[i + 1]]
                  /\ apath' = [apath EXCEPT ![a] = "replay"]
                  /\ pc' = [pc EXCEPT ![a] = "ret"]
                  /\ reg' = [reg EXCEPT ![a] = -1]
                  /\ given' = given \cup {i}
                  /\ UNCHANGED <<matchers, mcr, nmcr, am, timer>>
             ELSE /\ nmcr' = nmcr + 1
                  /\ mcr' = [mcr EXCEPT ![nmcr + 1] =
                                [NewMatcher(checks) EXCEPT !.notify = "chan"]]
                  /\ matchers' = Append(matchers, nmcr + 1)
                  /\ am' = [am EXCEPT ![a] = nmcr + 1]
                  /\ timer' = [timer EXCEPT ![a] = "running"]
                  /\ pc' = [pc EXCEPT ![a] = "select"]
                  /\ reg' = [reg EXCEPT ![a] =
                                IF matchers = <<>> THEN cnt ELSE -1]
                  /\ UNCHANGED <<matchIdx, aent, apath, given>>
    /\ achecks' = [achecks EXCEPT ![a] = checks]
    /\ aany' = [aany EXCEPT ![a] = any]
    /\ floor' = [floor EXCEPT ![a] = IF any THEN -2 ELSE lastIdx]
    /\ anyDone' = "no"
    /\ UNCHANGED <<buf, cnt, mx, adump, lastIdx, nwr, nrs, res, libVars>>
    /\ UNCHANGED wVars

\* select, case ent = <-found: the rendezvous with the Write blocked in
\* "mcr.notify <- ent".
SelectFound(a, w) ==
    /\ pc[a] = "select"
    /\ pc[w] = "send"
    /\ wm[w] = am[a]
    /\ aent' = [aent EXCEPT ![a] = went[w]]
    /\ pc' = [pc EXCEPT ![a] = "stopR", ![w] = "sent"]
    /\ given' = given \cup {went[w].idx}
    /\ UNCHANGED <<mx, mcr, nmcr, failed, anyDone, nwr, nrs, res, libVars>>
    /\ UNCHANGED <<achecks, aany, am, timer>>
    /\ UNCHANGED tstVars
    /\ UNCHANGED wVars
    /\ UNCHANGED hVars

\* select, case <-timer.C: the timer has expired and the select takes its
\* value.
SelectTimer(a) ==
    /\ pc[a] = "select"
    /\ timer[a] = "running"
    /\ timer' = [timer EXCEPT ![a] = "off"]
    /\ pc' = [pc EXCEPT ![a] = "stopT"]
    /\ UNCHANGED <<mx, mcr, nmcr, failed, anyDone, nwr, nrs, given, res, libVars>>
    /\ UNCHANGED <<achecks, aany, am, aent>>
    /\ UNCHANGED tstVars
    /\ UNCHANGED wVars
    /\ UNCHANGED hVars

\* Matcher.NotifyStop can take mcr.mx
NotifyStopLock(m) == mcr[m].mx = None

\* variant: the channel is closed but stays in mcr.notify
NotifyStopKeep(m) == [mcr EXCEPT ![m].closed = TRUE]

\* Matcher.NotifyStop: the matchers after it
NotifyStop(m) ==
    IF mcr[m].notify # "nil"
    THEN [mcr EXCEPT ![m].notify = "nil", ![m].closed = TRUE]
    ELSE mcr

\* the receive branch after the select: mcr.NotifyStop(), the timer is
\* stopped and drained; "if !ent.IsZero() { return ent }".
StopFound(a) ==
    /\ pc[a] = "stopR"
    /\ NotifyStopLock(am[a])
    /\ mcr' = NotifyStop(am[a])
    /\ timer' = [timer EXCEPT ![a] = "off"]
    /\ IF ~IsZero(aent[a])
       THEN /\ pc' = [pc EXCEPT ![a] = "ret"]
            /\ apath' = [apath EXCEPT ![a] = "delivery"]
       ELSE /\ pc' = [pc EXCEPT ![a] = "report"]
            /\ UNCHANGED apath
    /\ UNCHANGED <<mx, nmcr, failed, anyDone, nwr, nrs, given, res, libVars>>
    /\ UNCHANGED <<achecks, aany, am, aent>>
    /\ UNCHANGED <<adump, lastIdx, floor, reg>>
    /\ UNCHANGED tstVars
    /\ UNCHANGED wVars

\* the timer branch after the select: mcr.NotifyStop()
StopTimer(a) ==
    /\ pc[a] = "stopT"
    /\ NotifyStopLock(am[a])
    /\ mcr' = [NotifyStop(am[a]) EXCEPT ![am[a]].timedOut = TRUE]
    /\ pc' = [pc EXCEPT ![a] = "report"]
    /\ UNCHANGED <<mx, nmcr, failed, anyDone, nwr, nrs, given, res, libVars>>
    /\ UNCHANGED aVars
    /\ UNCHANGED tstVars
    /\ UNCHANGED wVars
    /\ UNCHANGED hVars

\* the timeout failure: t.Error(timeout), t.Error(tst.Entries().summary(1))
\* under the read lock, return ZeroEntry.
ReportTimeout(a) ==
    /\ pc[a] = "report"
    /\ mx = None
    /\ failed' = failed \cup {"timeout"} \cup
                 (IF \E k \in 1..Len(buf) : ~ValidJSON(buf[k])
                  THEN {"decode"} ELSE {})
    /\ adump' = [adump EXCEPT ![a] = entries(buf)]
    /\ aent' = [aent EXCEPT ![a] = ZeroEntry]
    /\ apath' = [apath EXCEPT ![a] = "timeout"]
    /\ pc' = [pc EXCEPT ![a] = "ret"]
    /\ UNCHANGED <<mx, mcr, nmcr, anyDone, nwr, nrs, given, res, libVars>>
    /\ UNCHANGED <<achecks, aany, am, timer>>
    /\ UNCHANGED <<lastIdx, floor, reg>>
    /\ UNCHANGED tstVars
    /\ UNCHANGED wVars

\* the locals of a call are gone once it has returned
Forget(a) ==
    /\ pc' = [pc EXCEPT ![a] = "idle"]
    /\ achecks' = [achecks EXCEPT ![a] = <<>>]
    /\ aany' = [aany EXCEPT ![a] = FALSE]
    /\ am' = [am EXCEPT ![a] = 0]
    /\ aent' = [aent EXCEPT ![a] = ZeroEntry]
    /\ apath' = [apath EXCEPT ![a] = "none"]
    /\ adump' = [adump EXCEPT ![a] = <<>>]
    /\ reg' = [reg EXCEPT ![a] = -1]

\* WaitFor returns aent[a] to its caller
WaitForReturn(a) ==
    /\ pc[a] = "ret"
    /\ ~aany[a]
    /\ Forget(a)
    /\ mcr' = Collect(mcr, matchers, am', wm)
    /\ lastIdx' = IF IsZero(aent[a]) \/ floor[a] = -2
                  THEN lastIdx ELSE Max(lastIdx, aent[a].idx)
    /\ floor' = [floor EXCEPT ![a] = -2]
    /\ UNCHANGED <<mx, nmcr, timer, failed, anyDone, nwr, nrs, given, res, libVars>>
    /\ UNCHANGED tstVars
    /\ UNCHANGED wVars

\* variant: the cursor is reset without taking tst.mx
ResetNoLock == TRUE

\* ResetLastMatch can take tst.mx
ResetLock == mx = None

\* WaitForAny: the deferred tst.ResetLastMatch() runs when WaitFor has
\* returned, then WaitForAny returns aent[a] to its caller.
WaitForAnyReturn(a) ==
    /\ pc[a] = "ret"
    /\ aany[a]
    /\ ResetLock
    /\ matchIdx' = -1
    /\ Forget(a)
    /\ lastIdx' = -1
    /\ floor' = [b \in Waiters |-> -2]
    /\ anyDone' = apath[a]
    /\ given' = {}
    /\ mcr' = Collect(mcr, matchers, am', wm)
    /\ UNCHANGED <<buf, cnt, matchers, mx, nmcr, timer, failed, nwr, nrs, res, libVars>>
    /\ UNCHANGED wVars

\* Tester.ResetLastMatch called by the test
ResetLastMatch ==
    /\ ResetLock
    /\ matchIdx' = -1
    /\ lastIdx' = -1
    /\ floor' = [b \in Waiters |-> -2]
    /\ given' = {}
    /\ UNCHANGED <<buf, cnt, matchers, mx, mcr, nmcr, pc, failed, anyDone, nwr, nrs, res, libVars>>
    /\ UNCHANGED <<apath, adump, reg>>
    /\ UNCHANGED aVars
    /\ UNCHANGED wVars

\* variant: Reset leaves the pending queue as it is
ResetKeepQueue ==
    /\ mx = None
    /\ nrs < MaxResets
    /\ cnt' = 0
    /\ buf' = <<>>
    /\ matchers' = matchers
    /\ lastIdx' = -1
    /\ floor' = [b \in Waiters |-> -2]
    /\ reg' = [b \in Waiters |-> -1]
    /\ given' = {}
    /\ nrs' = nrs + 1
    /\ nwr' = 0
    /\ mcr' = Collect(mcr, matchers', am, wm)
    /\ UNCHANGED <<matchIdx, mx, nmcr, pc, failed, anyDone, res, libVars>>
    /\ UNCHANGED <<apath, adump>>
    /\ UNCHANGED aVars
    /\ UNCHANGED wVars

\* Tester.Reset
Reset ==
    /\ mx = None
    /\ nrs < MaxResets
    /\ cnt' = 0
    /\ buf' = <<>>
    /\ matchers' = <<>>
    /\ lastIdx' = -1
    /\ floor' = [b \in Waiters |-> -2]
    /\ reg' = [b \in Waiters |-> -1]
    /\ given' = {}
    /\ nrs' = nrs + 1
    /\ nwr' = 0
    /\ mcr' = Collect(mcr, matchers', am, wm)
    /\ UNCHANGED <<matchIdx, mx, nmcr, pc, failed, anyDone, res, libVars>>
    /\ UNCHANGED <<apath, adump>>
    /\ UNCHANGED aVars
    /\ UNCHANGED wVars

\* ------------------------------------------------------------ the reads
\* tst.mx.RLock(): no Write, WaitFor or Reset holds the lock
ReadLock == mx = None

\* variant: a read unsets the cursor
ReadFrameCursor ==
    /\ matchIdx' = -1
    /\ UNCHANGED libVars
    /\ UNCHANGED <<mx, mcr, nmcr, pc, anyDone, nwr, nrs, given>>
    /\ UNCHANGED <<apath, adump, lastIdx, floor, reg>>
    /\ UNCHANGED <<buf, cnt, matchers>>
    /\ UNCHANGED aVars
    /\ UNCHANGED wVars

\* what a read leaves alone: everything but its result and the failures
ReadFrame ==
    /\ UNCHANGED libVars
    /\ UNCHANGED <<mx, mcr, nmcr, pc, anyDone, nwr, nrs, given>>
    /\ UNCHANGED <<apath, adump, lastIdx, floor, reg>>
    /\ UNCHANGED tstVars
    /\ UNCHANGED aVars
    /\ UNCHANGED wVars

\* the decode failure Tester.entries reports through t.Error
DecodeFailure(b) ==
    IF \E k \in 1..Len(b) : ~ValidJSON(b[k]) THEN {"decode"} ELSE {}

\* Tester.Entries
Entries ==
    /\ res = NoRes
    /\ ReadLock
    /\ res' = [NoRes EXCEPT !.op = "Entries", !.ets = entries(buf)]
    /\ failed' = failed \cup DecodeFailure(buf)
    /\ ReadFrame

\* variant: the loop of Filter ends at the first entry the matcher rejects
RECURSIVE filterPrefix(_, _)
filterPrefix(ets, checks) ==
    IF ets = <<>> \/ ~runChecks(checks, Head(ets)) THEN <<>>
    ELSE <<Head(ets)>> \o filterPrefix(Tail(ets), checks)

\* the loop of Filter: the entries a fresh matcher accepts, in order
RECURSIVE filterFrom(_, _)
filterFrom(ets, checks) ==
    IF ets = <<>> THEN <<>>
    ELSE IF runChecks(checks, Head(ets))
         THEN <<Head(ets)>> \o filterFrom(Tail(ets), checks)
         ELSE filterFrom(Tail(ets), checks)

\* Tester.Filter
Filter(checks) ==
    /\ res = NoRes
    /\ ReadLock
    /\ res' = [NoRes EXCEPT !.op = "Filter", !.checks = checks,
                            !.ets = filterFrom(entries(buf), checks)]
    /\ failed' = failed \cup DecodeFailure(buf)
    /\ ReadFrame

\* variant: Match skips the entries up to the cursor, as WaitFor does
matchAfterCursor(ets, checks) ==
    IF replay(ets, 0, matchIdx, checks) >= 0
    THEN ets[replay(ets, 0, matchIdx, checks) + 1]
    ELSE ZeroEntry

\* the loop of Match: the first entry mch.MatchEntry accepts, the zero
\* Entry when it accepts none
RECURSIVE matchFrom(_, _)
matchFrom(ets, checks) ==
    IF ets = <<>> THEN ZeroEntry
    ELSE IF runChecks(checks, Head(ets)) THEN Head(ets)
    ELSE matchFrom(Tail(ets), checks)

\* Tester.Match with a matcher built by NewMatcher(t, cfg, checks...); when
\* nothing is found it reports "log entry not found" and the summary of
\* tst.Entries().
Match(checks) ==
    LET ent == matchFrom(entries(buf), checks)
    IN /\ res = NoRes
       /\ ReadLock
       /\ res' = [NoRes EXCEPT !.op = "Match", !.checks = checks,
                               !.ent = ent,
                               !.ets = IF IsZero(ent) THEN entries(buf)
                                       ELSE <<>>]
       /\ failed' = failed \cup DecodeFailure(buf)
                           \cup (IF IsZero(ent) THEN {"not found"} ELSE {})
       /\ ReadFrame

\* Tester.Len
TesterLen ==
    /\ res = NoRes
    /\ ReadLock
    /\ res' = [NoRes EXCEPT !.op = "Len", !.n = cnt]
    /\ UNCHANGED failed
    /\ ReadFrame

\* the caller has taken the result of the read
ReadReturn ==
    /\ res # NoRes
    /\ res' = NoRes
    /\ UNCHANGED failed
    /\ ReadFrame

Next ==
    \/ \E w \in Writers, p \in Lines : WriteBegin(w, p)
    \/ \E w \in Writers : MatchLineSent(w)
    \/ \E w \in Writers : WriteEnd(w)
    \/ \E a \in Waiters, c \in CheckLists :
           WaitForBegin(a, c, a \in WaitForAnyCallers)
    \/ \E a \in Waiters, w \in Writers : SelectFound(a, w)
    \/ \E a \in Waiters : SelectTimer(a)
    \/ \E a \in Waiters : StopFound(a)
    \/ \E a \in Waiters : StopTimer(a)
    \/ \E a \in Waiters : ReportTimeout(a)
    \/ \E a \in Waiters : WaitForReturn(a)
    \/ \E a \in Waiters : WaitForAnyReturn(a)
    \/ ResetLastMatch
    \/ Reset

Spec == Init /\ [][Next]_vars

\* A test whose two waiting goroutines both call WaitFor.
NextWaitFor ==
    \/ \E w \in Writers, p \in Lines : WriteBegin(w, p)
    \/ \E w \in Writers : MatchLineSent(w)
    \/ \E w \in Writers : WriteEnd(w)
    \/ \E a \in Waiters, c \in CheckLists : WaitForBegin(a, c, FALSE)
    \/ \E a \in Waiters, w \in Writers : SelectFound(a, w)
    \/ \E a \in Waiters : SelectTimer(a)
    \/ \E a \in Waiters : StopFound(a)
    \/ \E a \in Waiters : StopTimer(a)
    \/ \E a \in Waiters : ReportTimeout(a)
    \/ \E a \in Waiters : WaitForReturn(a)
    \/ ResetLastMatch
    \/ Reset

SpecWaitFor == Init /\ [][NextWaitFor]_vars

\* A test that reads the Tester while one goroutine writes and one waits in
\* WaitFor.
NextRead ==
    \/ res = NoRes /\ \E w \in Writers, p \in Lines : WriteBegin(w, p)
    \/ res = NoRes /\ \E w \in Writers : MatchLineSent(w)
    \/ res = NoRes /\ \E w \in Writers : WriteEnd(w)
    \/ res = NoRes /\ \E a \in WaitForCallers, c \in CheckLists :
                          WaitForBegin(a, c, FALSE)
    \/ res = NoRes /\ \E a \in WaitForCallers, w \in Writers :
                          SelectFound(a, w)
    \/ res = NoRes /\ \E a \in WaitForCallers : SelectTimer(a)
    \/ res = NoRes /\ \E a \in WaitForCallers : StopFound(a)
    \/ res = NoRes /\ \E a \in WaitForCallers : StopTimer(a)
    \/ res = NoRes /\ \E a \in WaitForCallers : ReportTimeout(a)
    \/ res = NoRes /\ \E a \in WaitForCallers : WaitForReturn(a)
    \/ res = NoRes /\ ResetLastMatch
    \/ res = NoRes /\ Reset
    \/ Entries
    \/ \E c \in CheckLists : Filter(c)
    \/ \E c \in CheckLists : Match(c)
    \/ TesterLen
    \/ ReadReturn

SpecRead == Init /\ [][NextRead]_vars

\* ------------------------------------- WaitFor with a malformed timeout
\* tst.WaitFor("abc", checks...) is called: the thread is at tst.mx.Lock()
BadTimeoutBegin(a) ==
    /\ pc[a] = "idle"
    /\ pc' = [pc EXCEPT ![a] = "lock"]
    /\ UNCHANGED <<mx, mcr, nmcr, failed, anyDone, nwr, nrs, given, res,
                   libVars>>
    /\ UNCHANGED tstVars
    /\ UNCHANGED wVars
    /\ UNCHANGED aVars
    /\ UNCHANGED hVars

\* The lock is taken, time.ParseDuration fails, the error goes to t.Error
\* and the zero Entry is returned; no statement of this path unlocks tst.mx.
BadTimeoutReturn(a) ==
    /\ pc[a] = "lock"
    /\ WaitForLock
    /\ mx' = a
    /\ failed' = failed \cup {"duration"}
    /\ aent' = [aent EXCEPT ![a] = ZeroEntry]
    /\ apath' = [apath EXCEPT ![a] = "duration"]
    /\ pc' = [pc EXCEPT ![a] = "idle"]
    /\ UNCHANGED <<mcr, nmcr, anyDone, nwr, nrs, given, res, libVars>>
    /\ UNCHANGED <<achecks, aany, am, timer>>
    /\ UNCHANGED <<adump, lastIdx, floor, reg>>
    /\ UNCHANGED tstVars
    /\ UNCHANGED wVars

NextBadTimeout ==
    \/ Next
    \/ \E a \in WaitForCallers : BadTimeoutBegin(a)
    \/ \E a \in WaitForCallers : BadTimeoutReturn(a)

SpecBadTimeout == Init /\ [][NextBadTimeout]_vars

\* ------------------------------- Checkers and Entries expectations, calls
\* the type check.SameType compares the value with: true, "" or 1.1
WantType(kind) ==
    CASE kind = "Bool" -> "bool"
      [] kind = "Num" -> "number"
      [] OTHER -> "string"

\* time.Parse(ent.cfg.TimeFormat, haveStr) succeeds
ParsesAsTime(v) == v \in {"T1", "T2"}

\* variant: the type of the value is looked at before its presence
hasTypeFirst(kind, val) ==
    IF val.t # WantType(kind) THEN [err |-> "ErrType", have |-> ""]
    ELSE IF val.t = "absent" THEN [err |-> "ErrMissing", have |-> ""]
    ELSE IF kind = "Time" /\ ~ParsesAsTime(val.v)
         THEN [err |-> "ErrFormat", have |-> ""]
    ELSE [err |-> "nil", have |-> val.v]

\* HasBool, HasStr, HasTime, HasNum on a field with the value val: the
\* error each return path wraps, and the value returned with a nil error
has(kind, val) ==
    IF val.t = "absent" THEN [err |-> "ErrMissing", have |-> ""]
    ELSE IF val.t # WantType(kind) THEN [err |-> "ErrType", have |-> ""]
    ELSE IF kind = "Time" /\ ~ParsesAsTime(val.v)
         THEN [err |-> "ErrFormat", have |-> ""]
    ELSE [err |-> "nil", have |-> val.v]

\* check.Contain(want, have): want is a substring of have
Contain(want, have) ==
    have = want \/ (have = "xy" /\ want \in {"x", "y"})

\* the accessor behind each Checker
HasKind(kind) == IF kind = "Contain" THEN "Str" ELSE kind

\* CheckBool, CheckStr, CheckContain, CheckTime, CheckNumber: the error of
\* the accessor as it is, else ErrValue when the comparison fails
checker(kind, val, want) ==
    IF has(HasKind(kind), val).err # "nil" THEN has(HasKind(kind), val).err
    ELSE IF kind = "Contain"
         THEN (IF Contain(want, has("Str", val).have) THEN "nil"
               ELSE "ErrValue")
    ELSE IF has(kind, val).have = want THEN "nil" ELSE "ErrValue"

\* the values a Checker of each kind is built with
Wants(kind) ==
    CASE kind = "Bool" -> {"true", "false"}
      [] kind = "Num" -> {"0", "1"}
      [] kind = "Time" -> {"T1", "T2"}
      [] kind = "Contain" -> {"x", "y"}
      [] OTHER -> {"x", "xy"}

\* Entry.Bool, Entry.Str, Entry.Time, Entry.Number
CallHas(kind, val) ==
    /\ pur' = [NoPur EXCEPT !.op = "Has", !.kind = kind, !.val = val,
                            !.err = has(kind, val).err,
                            !.want = has(kind, val).have]
    /\ UNCHANGED <<mainVars, old, mt, rw, tend>>

\* a Checker applied to an Entry
CallChecker(kind, val, want) ==
    /\ pur' = [NoPur EXCEPT !.op = "Check", !.kind = kind, !.val = val,
                            !.want = want,
                            !.err = checker(kind, val, want)]
    /\ UNCHANGED <<mainVars, old, mt, rw, tend>>

\* the loop of exp and of notExp: the position of the first entry for
\* which fn returns nil, 0 when there is none
RECURSIVE firstNil(_, _, _)
firstNil(ets, fn, k) ==
    IF k > Len(ets) THEN 0
    ELSE IF chk(fn, ets[k]) THEN k
    ELSE firstNil(ets, fn, k + 1)

\* variant: exp wants fn to return nil for every entry
expAll(ets, fn) ==
    IF \A k \in 1..Len(ets) : chk(fn, ets[k])
    THEN [ret |-> TRUE, errs |-> 0]
    ELSE [ret |-> FALSE, errs |-> 1]

\* Entries.exp: the value returned and the number of t.Error calls
exp(ets, fn) ==
    IF firstNil(ets, fn, 1) > 0 THEN [ret |-> TRUE, errs |-> 0]
    ELSE [ret |-> FALSE, errs |-> 1]

\* Entries.notExp: the value returned and the number of t.Error calls
notExp(ets, fn) ==
    IF firstNil(ets, fn, 1) > 0 THEN [ret |-> FALSE, errs |-> 1]
    ELSE [ret |-> TRUE, errs |-> 0]

\* The snapshots: up to MaxSnapshot entries whose field A is absent, 0 or 1.
SnapshotEntry(v, i) ==
    [raw |-> IF v = 0 THEN "{\"A\":0}" ELSE IF v = 1 THEN "{\"A\":1}"
             ELSE "{}",
     m |-> [A |-> v], idx |-> i]

Snapshots ==
    UNION {{[k \in 1..n |-> SnapshotEntry(f[k], k - 1)] :
                f \in [1..n -> {-1, 0, 1}]} : n \in 0..MaxSnapshot}

\* ets.exp(fn)
CallExp(ets, fn) ==
    /\ pur' = [NoPur EXCEPT !.op = "exp", !.ets = ets, !.fn = fn,
                            !.ret = exp(ets, fn).ret,
                            !.errs = exp(ets, fn).errs]
    /\ UNCHANGED <<mainVars, old, mt, rw, tend>>

\* ets.notExp(fn)
CallNotExp(ets, fn) ==
    /\ pur' = [NoPur EXCEPT !.op = "notExp", !.ets = ets, !.fn = fn,
                            !.ret = notExp(ets, fn).ret,
                            !.errs = notExp(ets, fn).errs]
    /\ UNCHANGED <<mainVars, old, mt, rw, tend>>

\* Entries.Entry(n): `if n < len(ets.ets) { return ets.ets[n] }`, else one
\* t.Error and Entry{}; indexing a slice with a negative n panics
entryAt(ets, n) ==
    IF n < Len(ets)
    THEN IF n < 0 THEN [ent |-> ZeroEntry, errs |-> 0, panicked |-> TRUE]
         ELSE [ent |-> ets[n + 1], errs |-> 0, panicked |-> FALSE]
    ELSE [ent |-> ZeroEntry, errs |-> 1, panicked |-> FALSE]

\* ets.Entry(n)
CallEntriesEntry(ets, n) ==
    /\ pur' = [NoPur EXCEPT !.op = "Entry", !.ets = ets, !.n = n,
                            !.ent = entryAt(ets, n).ent,
                            !.errs = entryAt(ets, n).errs,
                            !.panicked = entryAt(ets, n).panicked]
    /\ UNCHANGED <<mainVars, old, mt, rw, tend>>

\* the Checkers of chk
CheckerNames == {"hasA", "A=0", "A=1"}

NextChecks ==
    \/ \E k \in {"Bool", "Str", "Time", "Num"}, v \in FieldValues :
           CallHas(k, v)
    \/ \E k \in {"Bool", "Str", "Contain", "Time", "Num"}, v \in FieldValues :
           \E w \in Wants(k) : CallChecker(k, v, w)
    \/ \E e \in Snapshots, f \in CheckerNames : CallExp(e, f)
    \/ \E e \in Snapshots, f \in CheckerNames : CallNotExp(e, f)
    \/ \E e \in Snapshots, n \in -1..(MaxSnapshot + 1) : CallEntriesEntry(e, n)

SpecChecks == Init /\ [][NextChecks]_vars

\* ------------------------------------ the Matcher of matcher.go, its calls
\* Every method below holds mcr.mx from its first statement to its return
\* and waits for nothing inside, so each call is one step.

\* close(mcr.done): closing a nil or a closed channel panics
closeDone(o) ==
    IF o.done = "open"
    THEN [o EXCEPT !.done = "closed", !.closes = @ + 1]
    ELSE [o EXCEPT !.panicked = TRUE]

\* NewMatcher(t, cfg, checks...)
OldNewMatcher(checks) ==
    /\ ~old.made
    /\ old' = [NoOld EXCEPT !.made = TRUE, !.checks = checks, !.done = "open"]
    /\ UNCHANGED <<mainVars, mt, pur, rw, tend>>

\* the function given to t.Cleanup by NewMatcher, run when the test ends
OldCleanup ==
    /\ old.made
    /\ ~old.ended
    /\ old' = IF old.done # "nil"
              THEN [closeDone(old) EXCEPT !.done = "nil", !.ended = TRUE]
              ELSE [old EXCEPT !.ended = TRUE]
    /\ UNCHANGED <<mainVars, mt, pur, rw, tend>>

\* the loop of match: every check gets an Entry of its own, with a clone of
\* the decoded map, and what it leaves in that clone is dropped; first is
\* set when the first check has passed.
RECURSIVE matchChecks(_, _, _)
matchChecks(checks, ent, first) ==
    IF checks = <<>> THEN [ok |-> TRUE, first |-> first]
    ELSE IF ~applyCheck(Head(checks), ent).ok
         THEN [ok |-> FALSE, first |-> first]
         ELSE matchChecks(Tail(checks), ent,
                          IF IsZero(first) THEN ent ELSE first)

\* variant: every successful match records its entry
setDoneAlways(o, first) ==
    IF o.done # "nil"
    THEN [closeDone(o) EXCEPT !.ent = first, !.done = "nil", !.sats = @ + 1]
    ELSE [o EXCEPT !.ent = first]

\* if mcr.done != nil { mcr.ent = first; close(mcr.done); mcr.done = nil }
setDone(o, first) ==
    IF o.done # "nil"
    THEN [closeDone(o) EXCEPT !.ent = first, !.done = "nil", !.sats = @ + 1]
    ELSE o

\* Matcher.match(idx, line)
match(idx, line) ==
    /\ old.made
    /\ old.calls < MaxOps
    /\ LET o == [old EXCEPT !.calls = @ + 1, !.idx = idx, !.line = line]
           ent == [raw |-> TrimSpace(line), m |-> Unmarshal(line),
                   idx |-> idx]
           r == matchChecks(old.checks, ent, ZeroEntry)
       IN old' = IF ~ValidJSON(line)
                 THEN [o EXCEPT !.ret = "false", !.errs = @ + 1]
                 ELSE IF ~r.ok THEN [o EXCEPT !.ret = "false"]
                 ELSE [setDone(o, r.first) EXCEPT !.ret = "true"]
    /\ UNCHANGED <<mainVars, mt, pur, rw, tend>>

\* variant: discard leaves the recorded entry in place
discardKeepEntry ==
    /\ old.made
    /\ old.discarded < MaxOps
    /\ old' = [(IF old.done # "nil" THEN closeDone(old) ELSE old)
                  EXCEPT !.done = "nil", !.discarded = @ + 1]
    /\ UNCHANGED <<mainVars, mt, pur, rw, tend>>

\* variant: discard closes the channel without looking at it
discardNoTest ==
    /\ old.made
    /\ old.discarded < MaxOps
    /\ old' = [closeDone(old) EXCEPT !.done = "nil", !.ent = ZeroEntry,
                                     !.discarded = @ + 1]
    /\ UNCHANGED <<mainVars, mt, pur, rw, tend>>

\* Matcher.discard
discard ==
    /\ old.made
    /\ old.discarded < MaxOps
    /\ old' = [(IF old.done # "nil" THEN closeDone(old) ELSE old)
                  EXCEPT !.done = "nil", !.ent = ZeroEntry,
                         !.discarded = @ + 1]
    /\ UNCHANGED <<mainVars, mt, pur, rw, tend>>

\* Matcher.IsDone
IsDone(o) == o.done = "nil"

\* the indices a line is matched under
Indices == {0, 1}

NextOldMatcher ==
    \/ \E c \in MatcherCheckLists : OldNewMatcher(c)
    \/ \E i \in Indices, l \in Lines : match(i, l)
    \/ discard
    \/ OldCleanup

SpecOldMatcher == Init /\ [][NextOldMatcher]_vars

\* ---------------------------- the Matcher of matcher_test.go, its calls
\* variant: the call does not wait for mcr.mx
MtNoLock == TRUE

\* mcr.mx.Lock() returns: nobody holds the lock
MtLock == mt.lock = "none"

\* NewMatcher(t, cfg, checks...)
MtNewMatcher(checks) ==
    /\ ~mt.made
    /\ mt' = [NoMt EXCEPT !.made = TRUE, !.checks = checks]
    /\ UNCHANGED <<mainVars, old, pur, rw, tend>>

\* close(mcr.notify); mcr.notify = nil
closeNotify(m) ==
    IF m.notify = 0 \/ m.closes[m.notify] > 0
    THEN [m EXCEPT !.panicked = TRUE, !.notify = 0]
    ELSE [m EXCEPT !.closes[m.notify] = @ + 1, !.notify = 0,
                   !.closedInFlight = @ \/ (m.pc = "sending"
                                            /\ m.sch = m.notify)]

\* Matcher.Notify, called by the listener, which keeps the channel
Notify ==
    /\ mt.made
    /\ MtLock
    /\ mt.notify = 0 => mt.nch < MaxOps
    /\ mt.rch # mt.notify \/ mt.notify = 0
    /\ mt' = IF mt.notify = 0
             THEN [mt EXCEPT !.nch = @ + 1, !.notify = mt.nch + 1,
                             !.regs = @ + 1, !.rch = mt.nch + 1]
             ELSE [mt EXCEPT !.rch = mt.notify]
    /\ UNCHANGED <<mainVars, old, pur, rw, tend>>

\* Matcher.NotifyStop
MtNotifyStop ==
    /\ mt.made
    /\ MtLock
    /\ mt.stops < MaxOps
    /\ mt' = [(IF mt.notify # 0 THEN closeNotify(mt) ELSE mt)
                 EXCEPT !.stops = @ + 1]
    /\ UNCHANGED <<mainVars, old, pur, rw, tend>>

\* one of the functions Notify gave to t.Cleanup, run when the test ends
MtCleanup ==
    /\ mt.made
    /\ mt.ran < mt.regs
    /\ MtLock
    /\ mt' = [(IF mt.notify # 0 THEN closeNotify(mt) ELSE mt)
                 EXCEPT !.ran = @ + 1]
    /\ UNCHANGED <<mainVars, old, pur, rw, tend>>

\* the loop over mcr.checks: all the checks are given the same Entry, whose
\* map they share, so what one check writes to it the next ones read
RECURSIVE runShared(_, _)
runShared(checks, ent) ==
    IF checks = <<>> THEN [ok |-> TRUE, ent |-> ent]
    ELSE IF ~applyCheck(Head(checks), ent).ok
         THEN [ok |-> FALSE, ent |-> applyCheck(Head(checks), ent).ent]
         ELSE runShared(Tail(checks), applyCheck(Head(checks), ent).ent)

\* variant: the counter moves at the first success only
countOnce(m) == [m EXCEPT !.cnt = IF @ = 0 THEN 1 ELSE @]

\* mcr.cnt++
countMatch(m) == [m EXCEPT !.cnt = @ + 1]

\* the end of MatchEntry and MatchLine once the checks have passed: the
\* send when a channel is set, then the count and the return
afterChecks(m, ent) ==
    IF m.notify # 0
    THEN [m EXCEPT !.pc = "sending", !.lock = "caller", !.cent = ent,
                   !.sch = m.notify,
                   !.sentOnClosed = @ \/ m.closes[m.notify] > 0]
    ELSE [countMatch(m) EXCEPT !.ret = [ok |-> TRUE, ent |-> ent]]

\* Matcher.MatchLine(idx, line), up to its return or to the send
MtMatchLine(idx, line) ==
    /\ mt.made
    /\ mt.pc = "idle"
    /\ MtLock
    /\ mt.calls < MaxOps
    /\ LET m == [mt EXCEPT !.calls = @ + 1, !.kind = "MatchLine",
                           !.idx = idx, !.line = line, !.arg = ZeroEntry,
                           !.ret = NoResult]
           r == runShared(mt.checks, LineEntry(idx, line))
       IN mt' = IF ~ValidJSON(line) THEN [m EXCEPT !.errs = @ + 1]
                ELSE IF ~r.ok THEN m
                ELSE afterChecks(m, r.ent)
    /\ UNCHANGED <<mainVars, old, pur, rw, tend>>

\* Matcher.MatchEntry(ent), up to its return or to the send; the Entry is
\* passed by value and its map by reference
MtMatchEntry(ent) ==
    /\ mt.made
    /\ mt.pc = "idle"
    /\ MtLock
    /\ mt.calls < MaxOps
    /\ LET m == [mt EXCEPT !.calls = @ + 1, !.kind = "MatchEntry",
                           !.idx = ent.idx, !.line = ent.raw, !.arg = ent,
                           !.ret = NoResult]
           r == runShared(mt.checks, ent)
       IN mt' = IF ~r.ok THEN m ELSE afterChecks(m, r.ent)
    /\ UNCHANGED <<mainVars, old, pur, rw, tend>>

\* the listener receives from the channel it holds: the send of the call
\* in progress completes and the call counts, unlocks and returns
MtReceive ==
    /\ mt.pc = "sending"
    /\ mt.rch = mt.sch
    /\ mt' = [countMatch(mt) EXCEPT !.pc = "idle", !.lock = "none",
                                    !.recvd = mt.cent,
                                    !.ret = [ok |-> TRUE, ent |-> mt.cent]]
    /\ UNCHANGED <<mainVars, old, pur, rw, tend>>

\* the entries MatchEntry is called with
GivenEntries ==
    {LineEntry(i, l) : i \in Indices, l \in {LineA0, LineA1}}

NextMatcher ==
    \/ \E c \in MatcherCheckLists : MtNewMatcher(c)
    \/ Notify
    \/ MtNotifyStop
    \/ MtCleanup
    \/ \E i \in Indices, l \in Lines : MtMatchLine(i, l)
    \/ \E e \in GivenEntries : MtMatchEntry(e)
    \/ MtReceive

SpecMatcher == Init /\ [][NextMatcher]_vars

\* ------------------------------------------------- the end of the test
\* The test function returns while goroutines it started may still be in
\* Write or WaitFor; then the functions given to t.Cleanup run, the one
\* registered last first.  No WaitFor begins after the test function has
\* returned.

\* variant: the cleanup forgets the channel without closing it
cleanupForget(m) == [mcr EXCEPT ![m].notify = "nil"]

\* the function Notify gave to t.Cleanup, under mcr.mx:
\* if mcr.notify != nil { close(mcr.notify); mcr.notify = nil }
cleanupNotify(m) ==
    IF mcr[m].notify # "nil"
    THEN [mcr EXCEPT ![m].notify = "nil", ![m].closed = TRUE]
    ELSE mcr

\* the test function returns
TestEnd ==
    /\ ~tend.ended
    /\ tend' = [tend EXCEPT !.ended = TRUE]
    /\ UNCHANGED <<mainVars, old, mt, pur, rw>>

\* the matchers of the WaitFor calls that went to Notify and whose cleanup
\* has not run yet
ToClean == (1..nmcr) \ tend.ran

\* the next cleanup runs: it takes mcr.mx of its matcher
Cleanup(m) ==
    /\ tend.ended
    /\ m \in ToClean
    /\ \A k \in ToClean : k <= m
    /\ mcr[m].mx = None
    /\ mcr' = cleanupNotify(m)
    /\ tend' = [tend EXCEPT !.ran = @ \cup {m}]
    /\ UNCHANGED <<mx, nmcr, pc, failed, anyDone, nwr, nrs, given, res>>
    /\ UNCHANGED <<old, mt, pur, rw>>
    /\ UNCHANGED tstVars
    /\ UNCHANGED wVars
    /\ UNCHANGED aVars
    /\ UNCHANGED hVars

\* the channel the call waits on has been closed
FoundClosed(a) == pc[a] = "select" /\ mcr[am[a]].closed

\* select, case ent = <-found on the closed channel: the receive returns
\* the zero value of Entry
SelectClosed(a) ==
    /\ FoundClosed(a)
    /\ aent' = [aent EXCEPT ![a] = ZeroEntry]
    /\ pc' = [pc EXCEPT ![a] = "stopR"]
    /\ UNCHANGED <<mx, mcr, nmcr, failed, anyDone, nwr, nrs, given, res,
                   libVars>>
    /\ UNCHANGED <<achecks, aany, am, timer>>
    /\ UNCHANGED tstVars
    /\ UNCHANGED wVars
    /\ UNCHANGED hVars

\* A test with one goroutine that writes, one that calls WaitFor, and a
\* Matcher of matcher.go, up to and through the end of the test.
NextCleanup ==
    \/ \E w \in Writers, p \in Lines : WriteBegin(w, p)
    \/ \E w \in Writers : MatchLineSent(w)
    \/ \E w \in Writers : WriteEnd(w)
    \/ ~tend.ended /\ \E a \in WaitForCallers, c \in CheckLists :
                          WaitForBegin(a, c, FALSE)
    \/ \E a \in WaitForCallers, w \in Writers : SelectFound(a, w)
    \/ \E a \in WaitForCallers : SelectTimer(a)
    \/ \E a \in WaitForCallers : SelectClosed(a)
    \/ \E a \in WaitForCallers : StopFound(a)
    \/ \E a \in WaitForCallers : StopTimer(a)
    \/ \E a \in WaitForCallers : ReportTimeout(a)
    \/ \E a \in WaitForCallers : WaitForReturn(a)
    \/ TestEnd
    \/ \E m \in MatcherIds : Cleanup(m)
    \/ ~tend.ended /\ OldNewMatcher(<<>>)
    \/ ~tend.ended /\ discard
    \/ tend.ended /\ OldCleanup

SpecCleanup == Init /\ [][NextCleanup]_vars

\* ------------------------------------------- tst.mx, a sync.RWMutex
\* One goroutine calls Filter, FirstEntry, LastEntry or Match, another one
\* calls Write, on a Tester with no wait pending.  A sync.RWMutex lets
\* RLock return while no goroutine holds the lock for writing or waits in
\* Lock for it; Lock returns when no goroutine holds the lock at all.

\* tst.mx.RLock() returns
RLockFree(r) == r.wpc = "idle"

\* The reading methods
ReadOps == {"Filter", "FirstEntry", "LastEntry", "Match"}

\* tst.mx.RLock() of Filter, FirstEntry, LastEntry or Match, and the call up
\* to the nested tst.Entries(): Match scans tst.entries() first and goes to
\* its return when an entry passes the checks, else reports the entry as
\* not found; the other three go to tst.Entries() at once.
ReadBegin(op, checks) ==
    /\ rw.rpc = "idle"
    /\ rw.nops < MaxOps
    /\ RLockFree(rw)
    /\ LET r == [rw EXCEPT !.readers = @ + 1, !.op = op, !.checks = checks,
                           !.ent = ZeroEntry, !.ets = <<>>, !.failed = {}]
           ent == matchFrom(entries(rw.b), checks)
       IN rw' = IF op # "Match" THEN [r EXCEPT !.rpc = "nested"]
                ELSE IF ~IsZero(ent)
                THEN [r EXCEPT !.rpc = "ret", !.ent = ent]
                ELSE [r EXCEPT !.rpc = "nested",
                               !.failed = DecodeFailure(rw.b)
                                              \cup {"not found"}]
    /\ UNCHANGED <<mainVars, old, mt, pur, tend>>

\* the nested tst.Entries(): RLock, decode, RUnlock; then the rest of the
\* method up to its return
ReadEntries ==
    /\ rw.rpc = "nested"
    /\ RLockFree(rw)
    /\ LET ets == entries(rw.b)
           r == [rw EXCEPT !.rpc = "ret",
                           !.failed = @ \cup DecodeFailure(rw.b)]
       IN rw' = CASE rw.op = "Filter" ->
                       [r EXCEPT !.ets = filterFrom(ets, rw.checks)]
                  [] rw.op = "FirstEntry" ->
                       [r EXCEPT !.ent = IF ets = <<>> THEN ZeroEntry
                                         ELSE ets[1]]
                  [] rw.op = "LastEntry" ->
                       [r EXCEPT !.ent = IF ets = <<>> THEN ZeroEntry
                                         ELSE ets[Len(ets)]]
                  [] OTHER -> [r EXCEPT !.ets = ets]
    /\ UNCHANGED <<mainVars, old, mt, pur, tend>>

\* the deferred tst.mx.RUnlock(): the method returns
ReadEnd ==
    /\ rw.rpc = "ret"
    /\ rw' = [rw EXCEPT !.rpc = "idle", !.readers = @ - 1, !.nops = @ + 1]
    /\ UNCHANGED <<mainVars, old, mt, pur, tend>>

\* Write(p) calls tst.mx.Lock(): it has the lock at once when nobody holds
\* it, else it waits, and from then on RLock waits too
LockBegin(p) ==
    /\ rw.wpc = "idle"
    /\ rw.nwr < MaxWrites
    /\ rw' = [rw EXCEPT !.line = p, !.nwr = @ + 1,
                        !.wpc = IF rw.readers = 0 THEN "holding"
                                ELSE "waiting"]
    /\ UNCHANGED <<mainVars, old, mt, pur, tend>>

\* the last reader has left: Lock returns
LockAcquire ==
    /\ rw.wpc = "waiting"
    /\ rw.readers = 0
    /\ rw' = [rw EXCEPT !.wpc = "holding"]
    /\ UNCHANGED <<mainVars, old, mt, pur, tend>>

\* Write under the lock with no matcher pending: tst.cnt++, the append, the
\* return and the deferred tst.mx.Unlock()
WriteLocked ==
    /\ rw.wpc = "holding"
    /\ rw' = [rw EXCEPT !.wpc = "idle", !.cnt = @ + 1,
                        !.b = Append(@, rw.line), !.line = ""]
    /\ UNCHANGED <<mainVars, old, mt, pur, tend>>

NextRWMutex ==
    \/ \E op \in ReadOps, c \in CheckLists : ReadBegin(op, c)
    \/ ReadEntries
    \/ ReadEnd
    \/ \E p \in Lines : LockBegin(p)
    \/ LockAcquire
    \/ WriteLocked

SpecRWMutex == Init /\ [][NextRWMutex]_vars

\* ------------------------------------------------------------- properties
\* The captured entries, stated directly: one entry per written line, in
\* write order, none at all once a line that is not JSON is in the buffer.
Captured(b) ==
    IF \E k \in 1..Len(b) : ~ValidJSON(b[k]) THEN <<>>
    ELSE [k \in 1..Len(b) |->
             [raw |-> TrimSpace(b[k]), m |-> Unmarshal(b[k]), idx |-> k - 1]]

\* every check of the list accepts the entry
Passes(checks, ent) == \A j \in 1..Len(checks) : chk(checks[j], ent)

\* the line decodes and every check accepts it
Satisfies(checks, line) ==
    ValidJSON(line) /\ Passes(checks, [m |-> Unmarshal(line)])

Min(S) == CHOOSE x \in S : \A y \in S : x <= y

\* C1: a WaitFor call that returns a non-zero entry returns an index
\* strictly greater than every index returned by the WaitFor calls that had
\* returned before it began, when no Reset, ResetLastMatch or WaitForAny
\* ran since those calls began.
C1_SequentialWaitsIncrease ==
    \A a \in Waiters :
        (pc[a] = "ret" /\ ~aany[a] /\ ~IsZero(aent[a]) /\ floor[a] >= 0)
            => aent[a].idx > floor[a]

\* a second WaitFor is satisfied by a delivery after an earlier WaitFor
\* returned a non-zero entry
C1_Witness ==
    \E a \in Waiters :
        /\ pc[a] = "ret" /\ ~aany[a] /\ ~IsZero(aent[a])
        /\ floor[a] >= 0 /\ apath[a] = "delivery"

\* C2: no WaitFor and no Write is left blocked for ever: in no state does a
\* WaitFor that took its timer branch wait in NotifyStop for the matcher
\* lock while the Write holding that lock waits for a receiver on the
\* delivery channel.
C2_NoThreadLeftBlocked ==
    ~ \E a \in Waiters, w \in Writers :
          pc[a] = "stopT" /\ pc[w] = "send" /\ wm[w] = am[a]

\* C3: a WaitFor that registered as head of the queue and is still blocked
\* has seen no completed write of a satisfying line; one that received a
\* delivery returns the first satisfying line written since it registered,
\* with that line's trimmed text and its position as index, and no call
\* that holds an entry reaches the timeout report.
C3_DeliveredFirstMatch ==
    \A a \in Waiters :
        /\ (pc[a] = "select" /\ reg[a] >= 0)
             => \A k \in reg[a]..(CompletedWrites - 1) :
                    ~Satisfies(achecks[a], buf[k + 1])
        /\ (pc[a] = "ret" /\ apath[a] = "delivery" /\ reg[a] >= 0)
             => /\ aent[a].idx \in reg[a]..(Len(buf) - 1)
                /\ aent[a].raw = TrimSpace(buf[aent[a].idx + 1])
                /\ Satisfies(achecks[a], buf[aent[a].idx + 1])
                /\ \A k \in reg[a]..(aent[a].idx - 1) :
                       ~Satisfies(achecks[a], buf[k + 1])
        /\ pc[a] = "report" => IsZero(aent[a])

\* a delivery that skipped an earlier, non-matching line
C3_Witness ==
    \E a \in Waiters :
        /\ pc[a] = "ret" /\ apath[a] = "delivery"
        /\ reg[a] >= 0 /\ aent[a].idx > reg[a]

C5_Replay ==
    [][\A a \in Waiters, c \in CheckLists :
           WaitForBegin(a, c, a \in WaitForAnyCallers) =>
               LET ets == Captured(buf)
                   S == {i \in 0..(Len(ets) - 1) :
                             i > matchIdx /\ Passes(c, ets[i + 1])}
               IN IF S # {}
                  THEN /\ pc'[a] = "ret" /\ apath'[a] = "replay"
                       /\ aent'[a] = ets[Min(S) + 1]
                       /\ aent'[a].idx = Min(S)
                       /\ matchIdx' = Min(S)
                       /\ matchers' = matchers
                  ELSE pc'[a] = "select"]_vars

\* a replay hit that is not the first captured entry
C5_Witness ==
    \E a \in Waiters :
        pc[a] = "ret" /\ apath[a] = "replay" /\ aent[a].idx >= 1

\* C6: a WaitFor that returns through its timeout returns the zero Entry
\* and has reported a timeout failure listing every captured entry; an
\* entry that WaitFor returns passes every check of the call.
C6_TimeoutReturnsZero ==
    [][\A a \in Waiters :
           /\ ReportTimeout(a) =>
                  /\ adump'[a] = Captured(buf)
                  /\ "timeout" \in failed'
                  /\ IsZero(aent'[a])
           /\ (WaitForReturn(a) \/ WaitForAnyReturn(a)) =>
                  /\ apath[a] = "timeout" =>
                         IsZero(aent[a]) /\ "timeout" \in failed
                  /\ ~IsZero(aent[a]) => Passes(achecks[a], aent[a])]_vars

\* a timeout whose failure lists a captured entry
C6_Witness ==
    \E a \in Waiters :
        pc[a] = "ret" /\ apath[a] = "timeout" /\ Len(adump[a]) >= 1

\* C7: no Write sends on, or blocks on, the channel of a matcher whose
\* WaitFor went through its timeout branch.
C7_NoSendAfterTimeout ==
    \A w \in Writers :
        pc[w] \in {"send", "sent", "panic"} => ~mcr[wm[w]].timedOut

\* a timed-out WaitFor whose matcher a late Write has matched without a
\* send, the Write having returned
C7_Witness ==
    \E a \in Waiters :
        /\ pc[a] = "ret" /\ apath[a] = "timeout"
        /\ mcr[am[a]].cnt = 1
        /\ \A w \in Writers : pc[w] = "idle"

\* C8: a Write that finds at the head of the queue a matcher whose WaitFor
\* timed out leaves the cursor as it was.
C8_DoneMatcherNotRun ==
    [][\A w \in Writers, p \in Lines :
           (WriteBegin(w, p) /\ matchers # <<>>
              /\ mcr[Head(matchers)].timedOut) => matchIdx' = matchIdx]_vars

\* C9: no thread is in the send of a matched entry while it holds tst.mx.
C9_NoSendUnderSinkLock ==
    \A w \in Writers : pc[w] = "send" => mx # w

\* C10: from the return of a WaitForAny until the next operation begins the
\* cursor is unset.
C10_AnyLeavesCursorUnset ==
    anyDone # "no" => matchIdx = -1

\* a WaitForAny satisfied by the delivery of a concurrent Write has returned
C10_Witness ==
    anyDone = "delivery"

\* C11: a WaitForAny called while some captured entry passes its checks
\* returns a passing entry from its replay phase, whatever value the cursor
\* has when it is called.
C11_AnyOrder ==
    [][\A a \in WaitForAnyCallers, c \in CheckLists :
           (/\ WaitForBegin(a, c, TRUE)
            /\ \E i \in 1..Len(Captured(buf)) : Passes(c, Captured(buf)[i]))
               => /\ pc'[a] = "ret"
                  /\ ~IsZero(aent'[a])
                  /\ Passes(c, aent'[a])]_vars

\* C12: an entry is handed to a wait (by the replay loop or by a delivery)
\* only if no wait was handed the entry of that index since the last cursor
\* reset or Reset, and a Write that delivers is received by one wait only.
C12_NoDoubleDelivery ==
    [][/\ \A a \in Waiters :
              (IsZero(aent[a]) /\ ~IsZero(aent'[a]))
                  => /\ aent'[a].idx \notin given
                     /\ \A b \in Waiters \ {a} : aent'[b] = aent[b]
       /\ \A a \in Waiters, w \in Writers :
              SelectFound(a, w) => pc'[w] = "sent"]_vars

\* two concurrent WaitFor calls hold the entries of two different lines
C12_Witness ==
    /\ \A a \in Waiters : pc[a] = "ret" /\ ~IsZero(aent[a])
    /\ given = {0, 1}

\* C13: when every write since New or Reset carried one JSON object,
\* Entries() returns one entry per write in write order: the k-th has index
\* k-1 and the trimmed bytes of the k-th write as raw text.
C13_EntriesInWriteOrder ==
    (res.op = "Entries" /\ \A k \in 1..Len(buf) : ValidJSON(buf[k]))
        => /\ Len(res.ets) = Len(buf)
           /\ \A k \in 1..Len(buf) :
                  /\ res.ets[k].idx = k - 1
                  /\ res.ets[k].raw = TrimSpace(buf[k])

\* Entries() returns two entries, the first written with a trailing newline
C13_Witness ==
    /\ res.op = "Entries" /\ Len(res.ets) = 2
    /\ buf[1] = LineA0 /\ res.ets[1].raw # buf[1]

\* C14: the write counter equals the number of Write calls begun since New
\* or the last Reset, Len() runs only between writes and returns it, so it
\* returns the number of completed writes; the entry a Write hands to the
\* head matcher carries the number of earlier writes as index; a Write
\* returns (len(p), nil).
C14_CounterAndIndex ==
    /\ cnt = Len(buf)
    /\ res.op = "Len" =>
           /\ res.n = Len(buf)
           /\ \A w \in Writers : pc[w] = "idle"
    /\ \A w \in Writers :
           /\ pc[w] \in {"send", "sent", "fin", "panic"}
                  => went[w].idx = Len(buf) - 1
           /\ wret[w] # NoRet => wret[w].err = "nil"
           /\ (pc[w] = "idle" /\ buf # <<>>)
                  => wret[w] = [n |-> ByteLen(buf[Len(buf)]), err |-> "nil"]

\* Len() returns 2 after a second write that was delivered to a wait
C14_Witness ==
    /\ res.op = "Len" /\ res.n = 2
    /\ matchIdx = 1
    /\ \A w \in Writers : wret[w].n = ByteLen(buf[2])

\* C15: a step that lowers the cursor is a cursor reset: ResetLastMatch or
\* the return of a WaitForAny.
C15_CursorMonotone ==
    [][matchIdx' < matchIdx
          => \/ ResetLastMatch
             \/ \E a \in Waiters : WaitForAnyReturn(a)]_vars

\* C16: a Filter or Match step leaves the buffer, the write counter, the
\* pending queue and the cursor as they were.
C16_ReadsKeepSink ==
    [][\A c \in CheckLists :
           (Filter(c) \/ Match(c)) => UNCHANGED <<buf, cnt, matchers, matchIdx>>]_vars

\* Match has returned an entry while a wait is pending and the cursor is set
C16_Witness ==
    /\ res.op = "Match" /\ ~IsZero(res.ent)
    /\ matchers # <<>> /\ matchIdx >= 0

\* C17: Match returns the lowest-index captured entry that passes every
\* check of the matcher, wherever the cursor is; when no captured entry
\* passes it returns the zero Entry and has reported "log entry not found"
\* with the captured entries.
C17_MatchLowest ==
    res.op = "Match" =>
        LET ets == Captured(buf)
            S == {i \in 1..Len(ets) : Passes(res.checks, ets[i])}
        IN IF S # {}
           THEN res.ent = ets[Min(S)]
           ELSE /\ IsZero(res.ent)
                /\ "not found" \in failed
                /\ res.ets = ets

\* Match has returned an entry that lies at or before the cursor
C17_Witness ==
    /\ res.op = "Match" /\ ~IsZero(res.ent)
    /\ res.ent.idx <= matchIdx

\* C18: a Reset step leaves the buffer, the counter, the captured entries
\* and the pending queue empty; until the next Write begins Len() returns 0
\* and Entries() returns nothing, and that Write appends the only line of
\* the buffer and hands index 0 to the matcher it is tested against.
C18_ResetClears ==
    [][/\ Reset => /\ buf' = <<>> /\ cnt' = 0 /\ matchers' = <<>>
                   /\ entries(buf') = <<>>
       /\ (nrs >= 1 /\ nwr = 0) =>
              /\ res'.op = "Len" => res'.n = 0
              /\ res'.op = "Entries" => res'.ets = <<>>
              /\ \A w \in Writers, p \in Lines :
                     WriteBegin(w, p) =>
                         /\ buf' = <<p>> /\ cnt' = 1
                         /\ pc'[w] = "send" => went'[w].idx = 0
                         /\ matchIdx' # matchIdx => matchIdx' = 0]_vars

\* Len() returns 0 after a Reset that followed a matched write
C18_Witness ==
    /\ nrs = 1 /\ nwr = 0 /\ matchIdx >= 0
    /\ res.op = "Len" /\ res.n = 0

\* C19: a Write of a text that is not JSON while a matcher is pending
\* reports the decode error, appends the bytes, increments the counter,
\* returns (len(p), nil) without a send and leaves queue and cursor alone.
C19_BadLineNoMatch ==
    [][\A w \in Writers :
           (WriteBegin(w, LineBad) /\ matchers # <<>>) =>
               /\ "matcher line" \in failed'
               /\ buf' = Append(buf, LineBad)
               /\ cnt' = cnt + 1
               /\ pc'[w] = "idle"
               /\ wret'[w] = [n |-> ByteLen(LineBad), err |-> "nil"]
               /\ UNCHANGED <<matchers, matchIdx>>]_vars

\* the wait that was head when the bad line was written receives the valid
\* line written after it
C19_Witness ==
    \E a \in Waiters :
        /\ pc[a] = "ret" /\ apath[a] = "delivery" /\ reg[a] = 0
        /\ aent[a].idx = 1 /\ buf[1] = LineBad

\* C20: every valid line written after a line that is not JSON is among
\* the entries Entries() returns.
C20_LaterLinesCaptured ==
    res.op = "Entries" =>
        \A k \in 1..Len(buf) :
            (ValidJSON(buf[k]) /\ \E j \in 1..(k - 1) : ~ValidJSON(buf[j]))
                => \E i \in 1..Len(res.ets) :
                       res.ets[i].raw = TrimSpace(buf[k])

\* ------------------------------------------------ the Matcher of matcher.go
\* every check of the list returns nil for the entry (a check that only
\* writes to the map returns nil for every entry)
AllNil(checks, ent) ==
    \A j \in 1..Len(checks) : checks[j] = "setA1" \/ chk(checks[j], ent)

\* the step is a call of match
IsMatchCall == old.made /\ old'.calls = old.calls + 1

C22_LifeCycle ==
    [][/\ (~old.made /\ old'.made) => ~IsDone(old')
       /\ (old.made /\ IsDone(old)) => IsDone(old')
       /\ (old.made /\ ~IsDone(old)) =>
              (IsDone(old') <=>
                   \/ IsMatchCall /\ old'.ret = "true"
                   \/ old'.discarded = old.discarded + 1
                   \/ old'.ended /\ ~old.ended)
       /\ old'.sats <= 1
       /\ old'.discarded > 0 => IsZero(old'.ent) /\ IsDone(old')]_vars

\* a match succeeded on a matcher that only discard had made done
C22_Witness ==
    /\ old.discarded > 0
    /\ ~old.ended
    /\ old.sats = 0
    /\ old.ret = "true"
    /\ old.checks # <<>>
    /\ IsZero(old.ent)

\* C23: in every order of match calls, discard calls and the cleanup at the
\* end of the test the done channel is closed at most once, and no call
\* closes a channel that is nil or closed already, which would panic.
C23_DoneClosedOnce == old.closes <= 1 /\ ~old.panicked

\* discard was called twice and the cleanup has run on a matcher that a
\* match had satisfied
C23_Witness ==
    /\ old.discarded = 2
    /\ old.sats = 1
    /\ old.ended
    /\ old.closes = 1

\* ------------------------------------------ the Matcher of matcher_test.go
\* C24: in every interleaving of MatchLine, MatchEntry, NotifyStop and the
\* cleanups registered by Notify, a delivery channel is closed at most
\* once, never while a send on it is in flight, and never sent on after it
\* was closed; no call closes a nil or closed channel, which would panic.
C24_NotifyClosedSafely ==
    /\ \A k \in DOMAIN mt.closes : mt.closes[k] <= 1
    /\ ~mt.closedInFlight
    /\ ~mt.sentOnClosed
    /\ ~mt.panicked
    /\ mt.pc = "sending" => mt.closes[mt.sch] = 0

\* NotifyStop was called twice and a cleanup has run on a matcher whose
\* channel delivered an entry and was closed
C24_Witness ==
    /\ mt.stops = 2
    /\ mt.ran >= 1
    /\ mt.closes[1] = 1
    /\ ~IsZero(mt.recvd)

\* the step is the return of a MatchLine or MatchEntry call
IsMtReturn ==
    /\ mt.made
    /\ mt'.pc = "idle"
    /\ mt'.calls = mt.calls + 1 \/ mt.pc = "sending"

\* the entry the call in progress evaluates
CallEntry(m) ==
    IF m.kind = "MatchLine" THEN LineEntry(m.idx, m.line) ELSE m.arg

\* C25: Matched() grows by exactly one at the return of every MatchEntry
\* and MatchLine call in which every check passed, the first time and
\* every later time, and is left alone by a call in which a check fails
\* or the line does not decode, and by every other operation.
C25_MatchedCounts ==
    [][mt.made =>
         /\ IsMtReturn =>
              /\ mt'.cnt = IF mt'.ret.ok THEN mt.cnt + 1 ELSE mt.cnt
              /\ (mt'.kind = "MatchLine" /\ ~ValidJSON(mt'.line)) =>
                     ~mt'.ret.ok
              /\ (\A j \in 1..Len(mt.checks) : mt.checks[j] # "setA1") =>
                     (mt'.ret.ok <=>
                          /\ mt'.kind = "MatchLine" => ValidJSON(mt'.line)
                          /\ AllNil(mt.checks, CallEntry(mt')))
         /\ ~IsMtReturn => mt'.cnt = mt.cnt]_vars

\* two calls succeeded on a matcher with a check, one of them delivered
C25_Witness ==
    /\ mt.cnt = 2
    /\ mt.calls = 2
    /\ mt.checks # <<>>
    /\ ~IsZero(mt.recvd)

\* C26: a check that writes to the map of the Entry it is given changes
\* neither what the other checks of the matcher see for the line nor the
\* entry the matcher returns and delivers: MatchLine succeeds exactly when
\* every check returns nil for the original decode of the line, and the
\* map of the entry it returns and sends is that decode.
C26_ChecksSeeOriginal ==
    [][(IsMtReturn /\ mt'.kind = "MatchLine") =>
         /\ mt'.ret.ok <=>
                (/\ ValidJSON(mt'.line)
                 /\ AllNil(mt.checks, LineEntry(mt'.idx, mt'.line)))
         /\ mt'.ret.ok => mt'.ret.ent.m = Unmarshal(mt'.line)
         /\ (mt'.ret.ok /\ mt.pc = "sending") =>
                mt'.recvd.m = Unmarshal(mt'.line)]_vars

\* -------------------------------------- WaitFor with a malformed timeout
\* no thread is inside a call other than a, which waits for tst.mx
OnlyCaller(a) ==
    /\ pc[a] = "lock"
    /\ \A t \in (Writers \cup Waiters) \ {a} : pc[t] = "idle"

\* C27: WaitFor with a timeout that does not parse reports the error,
\* returns the zero Entry, leaves the buffer, the counter, the queue and
\* the cursor as they are, and does not block: a call made while no other
\* call is in progress finds tst.mx free.
C27_BadTimeoutReturns ==
    [][/\ \A a \in WaitForCallers :
            (pc[a] = "lock" /\ pc'[a] = "idle") =>
                /\ "duration" \in failed'
                /\ IsZero(aent'[a])
                /\ UNCHANGED tstVars
       /\ \A a \in WaitForCallers : OnlyCaller(a)' => mx' = None]_vars

\* ------------------------------------------------------------------ Filter
\* C30: Filter(checks) returns exactly the captured entries that pass
\* every check, in capture order and with the indices they have in
\* Entries(), none when no entry passes; it reports no failure of its own,
\* whether it returns entries or not: nothing when every line of the buffer
\* decodes, and otherwise only the decode failure that Entries() reports.
C30_FilterExact ==
    [][(res.op = "none" /\ res'.op = "Filter") =>
         /\ res'.ets = SelectSeq(Captured(buf),
                                 LAMBDA e : Passes(res'.checks, e))
         /\ \A k \in 1..Len(res'.ets) :
                Captured(buf)[res'.ets[k].idx + 1] = res'.ets[k]
         /\ (\A k \in 1..Len(buf) : ValidJSON(buf[k])) => failed' = failed
         /\ failed' \ failed \subseteq {"decode"}]_vars

\* Filter has returned the second of two captured entries and not the first
C30_Witness ==
    /\ res.op = "Filter"
    /\ Len(buf) = 2
    /\ Len(res.ets) = 1
    /\ res.ets[1].idx = 1

\* ----------------------------------- Checkers and Entries expectations
\* C28: exp returns true exactly when fn returns nil for at least one entry
\* of the snapshot, notExp exactly when it does for none; a call that
\* returns false has reported one failure, a call that returns true none.
C28_ExpNotExp ==
    /\ pur.op = "exp" =>
           pur.ret = (\E k \in 1..Len(pur.ets) : chk(pur.fn, pur.ets[k]))
    /\ pur.op = "notExp" =>
           pur.ret = (\A k \in 1..Len(pur.ets) : ~chk(pur.fn, pur.ets[k]))
    /\ pur.op \in {"exp", "notExp"} =>
           pur.errs = IF pur.ret THEN 0 ELSE 1

\* exp has returned true on a snapshot whose first entry fails the Checker
C28_Witness ==
    /\ pur.op = "exp"
    /\ Len(pur.ets) = 2
    /\ ~chk(pur.fn, pur.ets[1])
    /\ pur.ret

C33_EntryOrOneFailure ==
    pur.op = "Entry" =>
        /\ ~pur.panicked
        /\ IF 0 <= pur.n /\ pur.n < Len(pur.ets)
           THEN pur.ent = pur.ets[pur.n + 1] /\ pur.errs = 0
           ELSE IsZero(pur.ent) /\ pur.errs = 1

\* ---------------------------------------------------------- the sink lock
\* C34: WaitFor releases tst.mx on every return path: whenever no call is
\* in progress on the Tester, whatever the calls that have returned and
\* the way they returned, the lock is free for the next Write, Len,
\* Entries, Reset or WaitFor.
C34_LockFreeWhenIdle ==
    (\A t \in Writers \cup Waiters : pc[t] = "idle") => mx = None

\* -------------------------------------------------------------- the cursor
\* C35: while the buffer holds valid JSON objects only, the cursor is unset
\* or the index of a captured entry: -1 <= matchIdx < Len().
C35_CursorInRange ==
    (\A k \in 1..Len(buf) : ValidJSON(buf[k])) =>
        -1 <= matchIdx /\ matchIdx < cnt

\* the step is the beginning of a WaitFor or WaitForAny call of a
IsWaitForCall(a) == pc[a] = "idle" /\ pc'[a] \in {"ret", "select"}

\* C36: after Reset, a WaitFor called while the buffer holds a line
\* written since the Reset that passes its checks, no entry having been
\* handed out since the Reset and no other call being in progress, returns
\* such a line from its replay phase without blocking, whatever the cursor
\* was before the Reset.
C36_ReplayAfterReset ==
    [][\A a \in WaitForCallers :
           (/\ IsWaitForCall(a)
            /\ nrs >= 1
            /\ given = {}
            /\ \A t \in (Writers \cup Waiters) \ {a} : pc[t] = "idle"
            /\ \A k \in 1..Len(buf) : ValidJSON(buf[k])
            /\ \E k \in 1..Len(buf) : Satisfies(achecks'[a], buf[k]))
           => /\ pc'[a] = "ret"
              /\ apath'[a] = "replay"
              /\ Satisfies(achecks'[a], buf[aent'[a].idx + 1])]_vars

\* ------------------------------------------------------ waits and the queue
\* b is blocked in its select with its timer running, no other wait is in
\* progress, and the waits registered before b have all timed out
BlockedBehindTimedOut(b) ==
    /\ pc[b] = "select"
    /\ timer[b] = "running"
    /\ \A t \in Waiters \ {b} : pc[t] = "idle"
    /\ Len(matchers) >= 2
    /\ matchers[Len(matchers)] = am[b]
    /\ \A j \in 1..(Len(matchers) - 1) : mcr[matchers[j]].timedOut

\* C37: a wait that timed out does not hold up a later wait: a line written
\* while the later wait is blocked and its timer runs, and that passes its
\* checks, is handed to that wait, whether or not the line passes the
\* checks of the wait that timed out.
C37_TimedOutWaitNoObstacle ==
    [][\A w \in Writers, b \in Waiters :
           (/\ pc[w] = "idle"
            /\ nwr' = nwr + 1
            /\ BlockedBehindTimedOut(b)
            /\ Satisfies(achecks[b], buf'[Len(buf')]))
           => pc'[w] = "send" /\ wm'[w] = am[b]]_vars

\* ----------------------------------------------------- Reset and a blocked wait
\* the matcher of a's call is in the pending queue
Queued(a) == \E k \in 1..Len(matchers) : matchers[k] = am[a]

\* a is blocked in its select and Reset has taken its matcher off the queue
Dropped(a) == pc[a] = "select" /\ ~Queued(a)

\* C32: Reset does not wake or discard a blocked WaitFor. The Reset step
\* leaves the call in its select with its entry, timer and open channel and
\* takes its matcher off the queue; from then on no Write sends to that
\* matcher and the only step of the call is its timer; the call returns
\* the zero Entry with the timeout failure.
C32_ResetLeavesWaitBlocked ==
    [][\A a \in Waiters :
           /\ (nrs' = nrs + 1 /\ pc[a] = "select")
                => /\ pc'[a] = "select"
                   /\ am'[a] = am[a] /\ aent'[a] = aent[a]
                   /\ timer'[a] = timer[a]
                   /\ mcr'[am[a]].notify = mcr[am[a]].notify
                   /\ mcr'[am[a]].closed = mcr[am[a]].closed
                   /\ Dropped(a)'
           /\ Dropped(a)
                => /\ \A w \in Writers : wm'[w] # am[a]
                   /\ \/ Dropped(a)' /\ aent'[a] = aent[a]
                      \/ pc'[a] = "stopT" /\ timer[a] = "running"
           /\ (pc[a] = "stopT" /\ ~Queued(a) /\ pc'[a] # "stopT")
                => pc'[a] = "report"
           /\ (pc[a] = "report" /\ ~Queued(a) /\ pc'[a] # "report")
                => /\ pc'[a] = "ret"
                   /\ IsZero(aent'[a])
                   /\ apath'[a] = "timeout"
                   /\ "timeout" \in failed']_vars

\* a call dropped by Reset is still blocked after a later Write has stored a
\* line that passes its checks
C32_Witness ==
    \E a \in Waiters :
        /\ Dropped(a)
        /\ nrs >= 1
        /\ \A w \in Writers : pc[w] = "idle"
        /\ \E k \in 1..Len(buf) : Satisfies(achecks[a], buf[k])

\* ------------------------------------------------- replay path, delivery path
\* the entry the replay loop of WaitFor reads at index i of the buffer
Replayed(i) == entries(buf)[i + 1]

\* C39: the two paths of WaitFor agree.  With only valid lines in the
\* buffer, an entry returned by the replay loop has the raw text of its
\* line, the index of that line, and the cursor is stored at that index; an
\* entry received from a Write is the entry the replay loop decodes from
\* the buffer at the same index (same raw text, same index), and the Write
\* that delivered it stores the cursor at that index.
C39_PathsAgree ==
    [][(\A k \in 1..Len(buf') : ValidJSON(buf'[k])) =>
        /\ \A a \in Waiters :
              /\ (pc[a] = "idle" /\ pc'[a] = "ret")
                   => /\ matchIdx' \in 0..(Len(buf) - 1)
                      /\ aent'[a].idx = matchIdx'
                      /\ aent'[a].raw = TrimSpace(buf[matchIdx' + 1])
                      /\ Passes(achecks'[a], aent'[a])
              /\ (pc[a] = "select" /\ pc'[a] = "stopR" /\ ~IsZero(aent'[a]))
                   => /\ aent'[a].idx \in 0..(Len(buf) - 1)
                      /\ aent'[a] = Replayed(aent'[a].idx)
                      /\ aent'[a].raw = TrimSpace(buf[aent'[a].idx + 1])
                      /\ Passes(achecks[a], aent'[a])
        /\ \A w \in Writers :
              (pc[w] = "fin" /\ pc'[w] = "idle" /\ ~IsZero(went[w]))
                   => /\ matchIdx' = went[w].idx
                      /\ matchIdx' \in 0..(Len(buf) - 1)
                      /\ Replayed(matchIdx') = went[w]]_vars

\* one call has returned entry 0 from the replay loop, another entry 1 from
\* a delivery, the Write has ended and the cursor is at entry 1
C39_Witness ==
    \E a, b \in Waiters :
        /\ pc[a] = "ret" /\ apath[a] = "replay" /\ aent[a].idx = 0
        /\ pc[b] = "ret" /\ apath[b] = "delivery" /\ aent[b].idx = 1
        /\ aent[b] = Replayed(1)
        /\ aent[a] = Replayed(0)
        /\ \A w \in Writers : pc[w] = "idle"
        /\ matchIdx = 1

\* ------------------------------------------------------- the nested read lock
\* C38: Filter, FirstEntry, LastEntry and Match always return when they run
\* concurrently with Write: the reader is never waiting for its second read
\* lock on tst.mx while a writer waits in Lock for the reader's first one.
C38_NestedReadLockReturns ==
    ~(/\ rw.rpc = "nested" /\ ~RLockFree(rw)
      /\ rw.wpc = "waiting" /\ rw.readers > 0)

\* ------------------------------------------------------- the end of the test
\* C31: the cleanup registered for a matcher closes its signal when it is
\* still open and does nothing when it is not: the channel of Notify
\* (closed and forgotten, so a WaitFor blocked in its select on it can
\* receive), the done channel of a Matcher of matcher.go (closed once, no
\* close of a nil or closed channel).  A WaitFor that leaves its select on
\* the closed channel has the zero Entry, goes to its failure report and
\* returns the zero Entry.
C31_CleanupReleases ==
    [][/\ \A m \in MatcherIds :
            (m \notin tend.ran /\ m \in tend'.ran)
              => /\ mcr'[m].notify = "nil"
                 /\ mcr[m].notify # "nil" => mcr'[m].closed
                 /\ mcr[m].notify = "nil" => mcr' = mcr
       /\ \A a \in WaitForCallers :
            /\ (pc[a] = "select" /\ am[a] \notin tend.ran
                                 /\ am[a] \in tend'.ran)
                 => FoundClosed(a)'
            /\ (FoundClosed(a) /\ pc'[a] # "select")
                 => pc'[a] \in {"stopR", "stopT"} /\ IsZero(aent'[a])
            /\ (pc[a] = "stopR" /\ IsZero(aent[a]) /\ pc'[a] # "stopR")
                 => pc'[a] = "report"
            /\ (pc[a] = "report" /\ pc'[a] # "report")
                 => /\ pc'[a] = "ret"
                    /\ IsZero(aent'[a])
                    /\ "timeout" \in failed'
       /\ (~old.ended /\ old'.ended)
            => /\ old'.done = "nil"
               /\ ~old'.panicked
               /\ old'.closes = old.closes
                                  + (IF old.done = "open" THEN 1 ELSE 0)]_vars

\* the cleanup of its matcher has run and the call has left its select
\* through the closed channel, with its timer still running
C31_Witness ==
    \E a \in WaitForCallers :
        /\ pc[a] = "stopR"
        /\ IsZero(aent[a])
        /\ am[a] \in tend.ran
        /\ timer[a] = "running"

====
